---- MODULE Spec2Model ----
(***************************************************************************)
(* Model of the ext2 forensic reader of src/history.cpp: the tree walk     *)
(* (traverseDirectory / processDirectoryBlockWithGhosts) that fills the    *)
(* inode reference index and prints the tree, and the action inference     *)
(* (getGhostsandLive / printRecoveredActions / printAction) that turns the *)
(* index into the sorted action log.                                       *)
(*                                                                         *)
(* A directory data block is modelled by the sequence of its live-chain    *)
(* records, each carrying the ghosts findGhostEntries returns for its      *)
(* slack.  Paths and printed fields are strings, built as the code builds  *)
(* them.                                                                   *)
(***************************************************************************)
EXTENDS Integers, Sequences, FiniteSets, TLC

\* ------------------------------------------------------------------ bounds
\* Largest timestamp value of an inode of the image.
MaxTime == 2
\* Longest reference list of the inode whose history InitInfer enumerates.
MaxEntries == 3
\* Deepest call stack of the walk before the process runs out of stack.
MaxStack == 9
\* Most pieces (words or whole records) a slack handed to the scavenger
\* is made of.
MaxPieces == 2

\* ------------------------------------------------------ image geometry
\* super_block.inodes_per_group and num_block_groups of the modelled images.
InodesPerGroup == 6
NumBlockGroups == 1
EXT2_ROOT_INODE == 2

InodeNums == 1..(InodesPerGroup * NumBlockGroups)
\* An inode number whose group is out of range.
BadInode == InodesPerGroup * NumBlockGroups + 1
Times == 0..MaxTime

VARIABLES
    img,            \* the image: inode table and directory data blocks
    stack,          \* call stack of the walk (traverseDirectory / process... frames)
    inode_to_info,  \* map<uint32_t, InodeRecord>: the reference index
    out,            \* lines written to the state (tree) output
    actions,        \* vector<Action> of printRecoveredActions
    printed,        \* lines written to the history output
    cur,            \* key of the map entry the loop of printRecoveredActions handled last
    pc              \* "walk", "infer", "done", "aborted"

vars == <<img, stack, inode_to_info, out, actions, printed, cur, pc>>

\* ------------------------------------------------------------ inode reader
ZeroInode ==
    [mode_dir |-> FALSE, access_time |-> 0, modification_time |-> 0,
     change_time |-> 0, deletion_time |-> 0, blocks |-> <<>>]

\* readBlock throws when the stream cannot deliver the block: the block lies
\* outside the image, or an earlier read has failed. A failed read leaves
\* failbit set on fs_file, nothing ever clears it, and with failbit set
\* seekg does nothing and read fails.
BlockThrows(blk) == img.failbit \/ ~img.blocks[blk].readable

\* readInode throws "Invalid inode group" for a number past the last group,
\* and lets the exception of readBlock through when the read of the inode
\* table fails. Inode 0 is answered without a read.
InodeThrows(inode_num) ==
    /\ inode_num # 0
    /\ \/ ((inode_num - 1) \div InodesPerGroup) >= NumBlockGroups
       \/ img.failbit

\* readInode: inode 0 is the zeroed inode, otherwise the record of the table.
readInode(inode_num) ==
    IF inode_num = 0 \/ inode_num \notin InodeNums THEN ZeroInode
    ELSE img.inodes[inode_num]

\* The fields of ext2_inode the index keeps as inode_data.
InodeData(inode_num) ==
    LET i == readInode(inode_num)
    IN [mode_dir |-> i.mode_dir, access_time |-> i.access_time,
        modification_time |-> i.modification_time,
        change_time |-> i.change_time, deletion_time |-> i.deletion_time]

ZeroData ==
    [mode_dir |-> FALSE, access_time |-> 0, modification_time |-> 0,
     change_time |-> 0, deletion_time |-> 0]

\* ------------------------------------------------------------- data types
\* EntryRecord{full_path, name, parent_inode, is_ghost}
EntryRecord(full_path, name, parent_inode, is_ghost) ==
    [full_path |-> full_path, name |-> name,
     parent_inode |-> parent_inode, is_ghost |-> is_ghost]

\* A default-constructed EntryRecord: empty strings; the scalars are
\* indeterminate and `junk` stands for what parent_inode happens to hold.
UnsetEntry(junk) == EntryRecord("", "", junk, FALSE)

\* Action{timestamp, action, args, affected_dirs, affected_inodes}
Action(timestamp, action, args, affected_dirs, inode) ==
    [timestamp |-> timestamp, action |-> action, args |-> args,
     affected_dirs |-> affected_dirs, affected_inodes |-> <<inode>>]

\* ------------------------------------------------------ getGhostsandLive
CountGhost(entries) == Cardinality({k \in 1..Len(entries) : entries[k].is_ghost})
CountLive(entries) == Cardinality({k \in 1..Len(entries) : ~entries[k].is_ghost})

\* LiveEntry after the counting loop: the last non-ghost reference.
LastLive(entries, junk) ==
    LET S == {k \in 1..Len(entries) : ~entries[k].is_ghost}
    IN IF S = {} THEN UnsetEntry(junk)
       ELSE entries[CHOOSE k \in S : \A j \in S : j <= k]

\* The "Creation arama" loop: stop at the first reference whose parent's
\* modification_time equals the inode's access_time; until then count the
\* references whose parent's access_time is older than the inode's.
RECURSIVE CreationLoop(_, _, _, _, _)
CreationLoop(entries, k, idata, ghostOnly, st) ==
    IF k > Len(entries) THEN st
    ELSE LET e == entries[k]
             g == (~ghostOnly) \/ e.is_ghost
         IN IF g /\ readInode(e.parent_inode).modification_time = idata.access_time
            THEN [st EXCEPT !.found = TRUE, !.entry = e]
            ELSE IF g /\ readInode(e.parent_inode).access_time < idata.access_time
                 THEN CreationLoop(entries, k + 1, idata, ghostOnly,
                                   [st EXCEPT !.flag = @ + 1, !.potential = e])
                 ELSE CreationLoop(entries, k + 1, idata, ghostOnly, st)

\* The loop followed by "if(potential_flag==1) {CreationEntry=potential; ...}".
FindCreation(entries, idata, ghostOnly) ==
    LET st == CreationLoop(entries, 1, idata, ghostOnly,
                 [found |-> FALSE, entry |-> UnsetEntry(0),
                  flag |-> 0, potential |-> UnsetEntry(0)])
    IN IF st.flag = 1 THEN [found |-> TRUE, entry |-> st.potential]
       ELSE [found |-> st.found, entry |-> st.entry]

\* The "deletion arama" loop: exact match of the parent's modification_time
\* with deletion_time, else the references whose parent changed later.
RECURSIVE DeletionLoop(_, _, _, _)
DeletionLoop(entries, k, idata, st) ==
    IF k > Len(entries) THEN st
    ELSE LET e == entries[k]
         IN IF readInode(e.parent_inode).modification_time = idata.deletion_time
            THEN [st EXCEPT !.found = TRUE, !.entry = e]
            ELSE IF readInode(e.parent_inode).modification_time > idata.deletion_time
                 THEN DeletionLoop(entries, k + 1, idata,
                                   [st EXCEPT !.flag = @ + 1, !.potential = e])
                 ELSE DeletionLoop(entries, k + 1, idata, st)

FindDeletion(entries, idata) ==
    LET st == DeletionLoop(entries, 1, idata,
                 [found |-> FALSE, entry |-> UnsetEntry(0),
                  flag |-> 0, potential |-> UnsetEntry(0)])
    IN IF st.flag = 1 THEN [found |-> TRUE, entry |-> st.potential]
       ELSE [found |-> st.found, entry |-> st.entry]

\* "for e: if(<ghost> && !(e==x)) {y=e; found=true;}": the last reference
\* that differs from x (among the ghosts when ghostOnly).
LastOther(entries, x, ghostOnly) ==
    LET S == {k \in 1..Len(entries) :
                 ((~ghostOnly) \/ entries[k].is_ghost) /\ entries[k] # x}
    IN IF S = {} THEN [found |-> FALSE, entry |-> UnsetEntry(0)]
       ELSE [found |-> TRUE, entry |-> entries[CHOOSE k \in S : \A j \in S : j <= k]]

\* The first ghost whose parent's modification_time equals that of the live
\* reference's parent or the inode's change_time (loop with break).
FirstMatchingLive(entries, idata, live) ==
    LET S == {k \in 1..Len(entries) :
                 /\ entries[k].is_ghost
                 /\ \/ readInode(entries[k].parent_inode).modification_time
                         = readInode(live.parent_inode).modification_time
                    \/ readInode(entries[k].parent_inode).modification_time
                         = idata.change_time}
    IN IF S = {} THEN [found |-> FALSE, entry |-> UnsetEntry(0)]
       ELSE [found |-> TRUE, entry |-> entries[CHOOSE k \in S : \A j \in S : k <= j]]

NotFound == [found |-> FALSE, entry |-> UnsetEntry(0)]

\* Info getGhostsandLive(InodeRecord inode)
getGhostsandLive(entries, idata, junk) ==
    LET G == CountGhost(entries)
        L == CountLive(entries)
        live == LastLive(entries, junk)
        c == FindCreation(entries, idata, TRUE)
        c0 == FindCreation(entries, idata, FALSE)
        og == FirstMatchingLive(entries, idata, live)
        d == FindDeletion(entries, idata)
        res(cr, de, ot) ==
            [live_count |-> L, ghost_count |-> G, LiveEntry |-> live,
             CreationEntry |-> cr.entry, DeletionEntry |-> de.entry,
             OtherGhost |-> ot.entry, foundCreation |-> cr.found,
             foundDeletion |-> de.found, foundOtherGhost |-> ot.found]
    IN CASE G = 0 /\ L = 1 -> res([found |-> TRUE, entry |-> live], NotFound, NotFound)
         [] G = 1 /\ L = 1 ->
              res([found |-> TRUE,
                   entry |-> entries[CHOOSE k \in 1..Len(entries) : entries[k].is_ghost]],
                  NotFound, NotFound)
         [] G = 2 /\ L = 1 ->
              IF c.found
              THEN res(c, NotFound, LastOther(entries, c.entry, TRUE))
              ELSE IF og.found
                   THEN res(LastOther(entries, og.entry, TRUE), NotFound, og)
                   ELSE res(NotFound, NotFound, NotFound)
         [] G > 2 /\ L = 1 -> res(c, NotFound, NotFound)
         [] G = 1 /\ L = 0 ->
              res([found |-> TRUE, entry |-> entries[1]],
                  [found |-> TRUE, entry |-> entries[1]], NotFound)
         [] G = 2 /\ L = 0 ->
              IF c0.found
              THEN res(c0, LastOther(entries, c0.entry, TRUE), NotFound)
              ELSE IF d.found
                   THEN res(LastOther(entries, d.entry, FALSE), d, NotFound)
                   ELSE res(NotFound, NotFound, NotFound)
         [] G > 2 /\ L = 0 -> res(c, d, NotFound)
         [] OTHER -> res(NotFound, NotFound, NotFound)

\* ------------------------------------------------- printRecoveredActions
CreateKind(idata) == IF idata.mode_dir THEN "mkdir" ELSE "touch"
DeleteKind(idata) == IF idata.mode_dir THEN "rmdir" ELSE "rm"

\* A creation event stamped with modification_time instead of access_time.
CreationActionAtModification(inode, idata, info) ==
    Action(idata.modification_time, CreateKind(idata),
           <<IF info.foundCreation THEN info.CreationEntry.full_path ELSE "">>,
           <<IF info.foundCreation THEN info.CreationEntry.parent_inode ELSE 0>>,
           inode)
\* The creation event of one inode.
CreationAction(inode, idata, info) ==
    Action(idata.access_time, CreateKind(idata),
           <<IF info.foundCreation THEN info.CreationEntry.full_path ELSE "">>,
           <<IF info.foundCreation THEN info.CreationEntry.parent_inode ELSE 0>>,
           inode)

\* A deletion event stamped with access_time instead of deletion_time.
DeletionActionAtAccess(inode, idata, info) ==
    Action(idata.access_time, DeleteKind(idata),
           <<IF info.foundDeletion THEN info.DeletionEntry.full_path ELSE "">>,
           <<IF info.foundDeletion THEN info.DeletionEntry.parent_inode ELSE 0>>,
           inode)
\* The deletion event of one inode (reached only with deletion_time != 0).
DeletionAction(inode, idata, info) ==
    Action(idata.deletion_time, DeleteKind(idata),
           <<IF info.foundDeletion THEN info.DeletionEntry.full_path ELSE "">>,
           <<IF info.foundDeletion THEN info.DeletionEntry.parent_inode ELSE 0>>,
           inode)

Mv(timestamp, src, dst, srcdir, dstdir, inode) ==
    Action(timestamp, "mv", <<src, dst>>, <<srcdir, dstdir>>, inode)

Ghosts(entries) == SelectSeq(entries, LAMBDA e : e.is_ghost)

\* "mv e -> ?" with unknown time for every reference of es.
RECURSIVE MvToUnknown(_, _)
MvToUnknown(es, inode) ==
    IF es = <<>> THEN <<>>
    ELSE <<Mv(0, Head(es).full_path, "?", Head(es).parent_inode, 0, inode)>>
         \o MvToUnknown(Tail(es), inode)

\* The move of a deleted inode with source and destination exchanged.
DeletedMovesReversed(inode, entries, idata, info) ==
    IF info.ghost_count = 2 /\ info.foundCreation /\ info.foundDeletion
    THEN <<Mv(0, info.DeletionEntry.full_path, info.CreationEntry.full_path,
              info.DeletionEntry.parent_inode, info.CreationEntry.parent_inode, inode)>>
    ELSE <<>>
\* The moves of a deleted inode.
DeletedMoves(inode, entries, idata, info) ==
    IF info.ghost_count = 2 /\ info.foundCreation /\ info.foundDeletion
    THEN <<Mv(0, info.CreationEntry.full_path, info.DeletionEntry.full_path,
              info.CreationEntry.parent_inode, info.DeletionEntry.parent_inode, inode)>>
    ELSE IF info.ghost_count > 1 /\ ~info.foundCreation
    THEN IF info.foundDeletion
         THEN <<Mv(0, "?", info.DeletionEntry.full_path,
                   0, info.DeletionEntry.parent_inode, inode)>>
              \o MvToUnknown(SelectSeq(entries,
                     LAMBDA e : e.is_ghost /\ e # info.DeletionEntry), inode)
         ELSE MvToUnknown(SelectSeq(entries,
                     LAMBDA e : e.is_ghost
                        /\ readInode(e.parent_inode).modification_time
                             # idata.deletion_time), inode)
    ELSE <<>>

\* change_time when it differs from modification_time, else unknown (0).
ChangeStamp(idata) ==
    IF idata.change_time # idata.modification_time THEN idata.change_time ELSE 0

\* ghost_count == 1: entries[0] and entries[1] are read whatever the list
\* holds; `wild` is what the read of entries[1] yields when it does not exist.
SingleGhostMove(inode, entries, idata, wild) ==
    LET e0 == entries[1]
        e1 == IF Len(entries) >= 2 THEN entries[2] ELSE wild
    IN <<Action(ChangeStamp(idata), "mv",
                IF e0.is_ghost THEN <<e0.full_path, e1.full_path>>
                ELSE <<e1.full_path, e0.full_path>>,
                <<e0.parent_inode, e1.parent_inode>>, inode)>>

MatchesLive(e, idata, info) ==
    \/ readInode(e.parent_inode).modification_time
         = readInode(info.LiveEntry.parent_inode).modification_time
    \/ readInode(e.parent_inode).modification_time = idata.change_time

\* The two moves with the second one stamped from the inode alone.
TwoGhostMovesStampedChange(inode, idata, info) ==
    <<Mv(0, info.CreationEntry.full_path, info.OtherGhost.full_path,
         info.CreationEntry.parent_inode, info.OtherGhost.parent_inode, inode),
      Mv(ChangeStamp(idata),
         info.OtherGhost.full_path, info.LiveEntry.full_path,
         info.OtherGhost.parent_inode, info.LiveEntry.parent_inode, inode)>>
\* ghost_count == 2 with Creation and OtherGhost found: two moves.
TwoGhostMoves(inode, idata, info) ==
    <<Mv(0, info.CreationEntry.full_path, info.OtherGhost.full_path,
         info.CreationEntry.parent_inode, info.OtherGhost.parent_inode, inode),
      Mv(IF MatchesLive(info.OtherGhost, idata, info)
         THEN readInode(info.OtherGhost.parent_inode).modification_time
         ELSE ChangeStamp(idata),
         info.OtherGhost.full_path, info.LiveEntry.full_path,
         info.OtherGhost.parent_inode, info.LiveEntry.parent_inode, inode)>>

\* The remaining case: one move per ghost, to the live reference when the
\* parent's modification_time matches, else to "?".
RECURSIVE GhostLoop(_, _, _, _)
GhostLoop(es, inode, idata, info) ==
    IF es = <<>> THEN <<>>
    ELSE LET e == Head(es)
         IN <<IF MatchesLive(e, idata, info)
              THEN Mv(readInode(e.parent_inode).modification_time,
                      e.full_path, info.LiveEntry.full_path,
                      e.parent_inode, info.LiveEntry.parent_inode, inode)
              ELSE Mv(0, e.full_path, "?", e.parent_inode, 0, inode)>>
            \o GhostLoop(Tail(es), inode, idata, info)

ManyGhostMoves(inode, entries, idata, info) ==
    GhostLoop(Ghosts(entries), inode, idata, info)
    \o (IF \E k \in 1..Len(entries) :
               entries[k].is_ghost /\ MatchesLive(entries[k], idata, info)
        THEN <<>>
        ELSE <<Mv(ChangeStamp(idata), "?", info.LiveEntry.full_path,
                  0, info.LiveEntry.parent_inode, inode)>>)

\* The moves of an inode with deletion_time == 0.
LiveMoves(inode, entries, idata, info, wild) ==
    IF info.ghost_count = 1 THEN SingleGhostMove(inode, entries, idata, wild)
    ELSE IF info.ghost_count = 2 /\ info.foundCreation /\ info.foundOtherGhost
    THEN TwoGhostMoves(inode, idata, info)
    ELSE ManyGhostMoves(inode, entries, idata, info)

\* What follows the creation event in one iteration of the loop.
AfterCreation(inode, entries, idata, info, wild) ==
    IF info.ghost_count = 0 THEN <<>>
    ELSE IF idata.deletion_time # 0
    THEN <<DeletionAction(inode, idata, info)>>
         \o DeletedMoves(inode, entries, idata, info)
    ELSE LiveMoves(inode, entries, idata, info, wild)

\* One iteration of "for (const auto& [inode, record] : inode_to_info)".
InodeActions(inode, entries, idata, junk, wild) ==
    LET info == getGhostsandLive(entries, idata, junk)
    IN <<CreationAction(inode, idata, info)>>
       \o AfterCreation(inode, entries, idata, info, wild)

\* The subscripts (from 0) with which one iteration reads record.entries:
\* entries[0] in getGhostsandLive when ghost_count == 1 and live_count == 0,
\* entries[0] and entries[1] in the move of an inode with ghost_count == 1
\* and deletion_time == 0. Every other read is by a range-for loop.
IndexedReads(entries, idata) ==
    (IF CountGhost(entries) = 1 /\ CountLive(entries) = 0 THEN {0} ELSE {})
    \cup (IF CountGhost(entries) = 1 /\ idata.deletion_time = 0 THEN {0, 1} ELSE {})

\* The iteration reads entries[1] of a one-element vector.
ReadsPastEnd(entries, idata) ==
    /\ CountGhost(entries) = 1
    /\ idata.deletion_time = 0
    /\ Len(entries) < 2

\* The iteration reads LiveEntry although no live reference was assigned to it.
ReadsUnsetLive(entries, idata) ==
    /\ CountLive(entries) = 0
    /\ CountGhost(entries) >= 2
    /\ idata.deletion_time = 0

\* The iteration calls readInode on the parent of a reference and the call
\* throws. With two or more ghosts every branch reads the parents of the
\* references in list order, starting with the first ghost (the first
\* reference when there is no live one); with fewer it reads none.
InferenceThrows(entries) ==
    /\ CountGhost(entries) >= 2
    /\ \E k \in 1..Len(entries) : InodeThrows(entries[k].parent_inode)

\* What an indeterminate parent_inode may hold.
JunkInodes == {0, EXT2_ROOT_INODE, BadInode}
\* What the read past the end of the vector may do: fault, or yield bytes.
WildReads ==
    {[segv |-> TRUE, full_path |-> "", name |-> "", parent_inode |-> 0, is_ghost |-> FALSE],
     [segv |-> FALSE, full_path |-> "", name |-> "", parent_inode |-> 0, is_ghost |-> FALSE],
     [segv |-> FALSE, full_path |-> "#", name |-> "", parent_inode |-> BadInode, is_ghost |-> TRUE]}
NoWild == [segv |-> FALSE, full_path |-> "", name |-> "", parent_inode |-> 0, is_ghost |-> FALSE]

\* ------------------------------------------------------------ printAction
Digits == <<"0", "1", "2", "3", "4", "5", "6", "7", "8", "9">>
RECURSIVE NumStr(_)
NumStr(n) == IF n < 10 THEN Digits[n + 1] ELSE NumStr(n \div 10) \o Digits[(n % 10) + 1]

\* printAction: the fields of one line of the history output.
printAction(a) ==
    [ts |-> IF a.timestamp = 0 THEN "?" ELSE NumStr(a.timestamp),
     action |-> a.action,
     args |-> [i \in 1..Len(a.args) |-> IF a.args[i] = "" THEN "?" ELSE a.args[i]],
     dirs |-> [i \in 1..Len(a.affected_dirs) |->
                 IF a.affected_dirs[i] = 0 THEN "?" ELSE NumStr(a.affected_dirs[i])],
     inodes |-> [i \in 1..Len(a.affected_inodes) |->
                 IF a.affected_inodes[i] = 0 THEN "?" ELSE NumStr(a.affected_inodes[i])]]

\* A comparator that orders by descending timestamp.
BeforeDescending(a, b) == a.timestamp > b.timestamp
\* The comparator handed to std::sort.
Before(a, b) == a.timestamp < b.timestamp

\* Every order std::sort may leave: the permutations in which no element
\* comes before one that the comparator puts before it.
RECURSIVE SortedOrders(_, _)
SortedOrders(a, S) ==
    IF S = {} THEN {<<>>}
    ELSE UNION {{<<a[i]>> \o t : t \in SortedOrders(a, S \ {i})} :
                 i \in {j \in S : \A k \in S : ~Before(a[k], a[j])}}

\* ------------------------------------------------------------ tree output
RECURSIVE Indent(_)
Indent(depth) == IF depth <= 0 THEN "" ELSE "-" \o Indent(depth - 1)

\* The directory line indented one level too deep.
DirLineOneDeeper(depth, inode_num, dir_name, is_ghost) ==
    IF depth = 1 THEN Indent(depth + 1) \o " " \o NumStr(inode_num) \o ":root/"
    ELSE IF is_ghost
         THEN Indent(depth + 1) \o " (" \o NumStr(inode_num) \o ":" \o dir_name \o "/)"
         ELSE Indent(depth + 1) \o " " \o NumStr(inode_num) \o ":" \o dir_name \o "/"
\* The line traverseDirectory prints for the directory it enters.
DirLine(depth, inode_num, dir_name, is_ghost) ==
    IF depth = 1 THEN Indent(depth) \o " " \o NumStr(inode_num) \o ":root/"
    ELSE IF is_ghost
         THEN Indent(depth) \o " (" \o NumStr(inode_num) \o ":" \o dir_name \o "/)"
         ELSE Indent(depth) \o " " \o NumStr(inode_num) \o ":" \o dir_name \o "/"

FileLine(depth, inode, name) ==
    Indent(depth) \o " " \o NumStr(inode) \o ":" \o name

GhostFileLine(depth, inode, name) ==
    Indent(depth) \o " (" \o NumStr(inode) \o ":" \o name \o ")"

\* current_path.empty() ? name : current_path + "/" + name
JoinPath(current_path, name) ==
    IF current_path = "" THEN name ELSE current_path \o "/" \o name

\* ------------------------------------------------------------- call stack
TravFrame(inode_num, depth, current_path, dir_name, is_ghost) ==
    [fn |-> "traverseDirectory", inode |-> inode_num, depth |-> depth,
     path |-> current_path, name |-> dir_name, ghost |-> is_ghost,
     stage |-> "enter", at |-> 0, recs |-> <<>>,
     active_entries |-> <<>>, all_ghosts |-> <<>>]

ProcFrame(recs, depth, current_path, dir_inode, parent_is_ghost) ==
    [fn |-> "processDirectoryBlockWithGhosts", inode |-> dir_inode, depth |-> depth,
     path |-> current_path, name |-> "", ghost |-> parent_is_ghost,
     stage |-> "scan", at |-> 0, recs |-> recs,
     active_entries |-> <<>>, all_ghosts |-> <<>>]

Top == stack[Len(stack)]
Pop(stk) == SubSeq(stk, 1, Len(stk) - 1)
SetTop(stk, f) == [stk EXCEPT ![Len(stk)] = f]

\* The data blocks of a directory in the order the walk reads them, each
\* with the pointer level it is reached through.
DataBlocks(inode_num) == readInode(inode_num).blocks

\* The catch clause of the frame's current block: the loop over the direct
\* blocks continues with the next block; the try around an indirect level
\* encloses its loops, so the rest of the level is skipped.
Catch(f) ==
    LET bl == DataBlocks(f.inode)
        via == bl[f.at].via
        later == {k \in (f.at + 1)..Len(bl) : bl[k].via # via}
    IN IF via = "direct" THEN [f EXCEPT !.at = @ + 1]
       ELSE [f EXCEPT !.at = IF later = {} THEN Len(bl) + 1
                              ELSE CHOOSE k \in later : \A j \in later : k <= j]

\* An exception leaves every frame up to the nearest traverseDirectory,
\* whose calls of the block scanner are all inside a try.
RECURSIVE Unwind(_)
Unwind(stk) ==
    IF stk = <<>> THEN <<>>
    ELSE IF stk[Len(stk)].fn = "traverseDirectory"
         THEN SetTop(stk, Catch(stk[Len(stk)]))
         ELSE Unwind(Pop(stk))

\* ------------------------------------- processDirectoryBlockWithGhosts: scan
\* inode_to_info[inode].entries.push_back(entry), storing inode_data on
\* first sight.
Register(index, inode, entry) ==
    [index EXCEPT ![inode] =
        [inode_data |-> IF index[inode].entries = <<>> THEN InodeData(inode)
                        ELSE index[inode].inode_data,
         entries |-> Append(index[inode].entries, entry)]]

\* A scan that keeps every slack ghost.
GhostAlwaysAdmitted(ghost, active_inodes) == TRUE
\* A slack ghost is kept unless its inode is in the active set.
GhostAdmitted(ghost, active_inodes) == ghost.inode \notin active_inodes

\* The loop over the ghosts findGhostEntries returned for one record's slack.
RECURSIVE ScanGhosts(_, _, _, _)
ScanGhosts(ghosts, st, current_path, dir_inode) ==
    IF ghosts = <<>> \/ st.threw THEN st
    ELSE LET ghost == Head(ghosts)
         IN IF ~GhostAdmitted(ghost, st.active_inodes)
            THEN ScanGhosts(Tail(ghosts), st, current_path, dir_inode)
            ELSE IF InodeThrows(ghost.inode)
            THEN [st EXCEPT !.threw = TRUE]
            ELSE ScanGhosts(Tail(ghosts),
                    [st EXCEPT
                       !.all_ghosts = Append(@, ghost),
                       !.index = Register(@, ghost.inode,
                                    EntryRecord("/" \o JoinPath(current_path, ghost.name),
                                                ghost.name, dir_inode, TRUE))],
                    current_path, dir_inode)

\* One record of the live chain: registration, then its slack.
ScanRecord(r, st, current_path, dir_inode) ==
    LET named == r.inode # 0 /\ r.name # "." /\ r.name # ".."
        st1 == IF named THEN [st EXCEPT !.active_inodes = @ \cup {r.inode}] ELSE st
    IN IF named /\ InodeThrows(r.inode) THEN [st1 EXCEPT !.threw = TRUE]
       ELSE ScanGhosts(r.ghosts,
               IF named
               THEN [st1 EXCEPT
                       !.index = Register(@, r.inode,
                                    EntryRecord("/" \o JoinPath(current_path, r.name),
                                                r.name, dir_inode, FALSE)),
                       !.active_entries =
                           Append(@, [name |-> r.name, inode |-> r.inode, dir |-> r.dir])]
               ELSE st1,
               current_path, dir_inode)

\* The while loop over the records of the block.
RECURSIVE ScanRecords(_, _, _, _)
ScanRecords(recs, st, current_path, dir_inode) ==
    IF recs = <<>> \/ st.threw THEN st
    ELSE ScanRecords(Tail(recs), ScanRecord(Head(recs), st, current_path, dir_inode),
                     current_path, dir_inode)

\* ---------------------------------------------------------------- actions
Keys == {n \in InodeNums : inode_to_info[n].entries # <<>>}
NextKeys == {n \in Keys : n > cur}

\* One iteration of the loop of printRecoveredActions.
InferInode ==
    /\ pc = "infer"
    /\ NextKeys # {}
    /\ LET inode == CHOOSE n \in NextKeys : \A m \in NextKeys : n <= m
           record == inode_to_info[inode]
       IN \E junk \in (IF ReadsUnsetLive(record.entries, record.inode_data)
                       THEN JunkInodes ELSE {0}),
             wild \in (IF ReadsPastEnd(record.entries, record.inode_data)
                       THEN WildReads ELSE {NoWild}) :
            IF wild.segv \/ InodeThrows(junk) \/ InferenceThrows(record.entries)
            THEN /\ pc' = "aborted"
                 /\ actions' = actions \o <<CreationAction(inode, record.inode_data,
                                   getGhostsandLive(record.entries, record.inode_data, junk))>>
                 /\ cur' = inode
            ELSE /\ actions' = actions \o InodeActions(inode, record.entries,
                                                       record.inode_data, junk, wild)
                 /\ cur' = inode
                 /\ pc' = pc
    /\ UNCHANGED <<img, stack, inode_to_info, out, printed>>

\* std::sort of the actions, then printAction on each.
SortAndPrint ==
    /\ pc = "infer"
    /\ NextKeys = {}
    /\ actions' \in SortedOrders(actions, 1..Len(actions))
    /\ printed' = [i \in 1..Len(actions) |-> printAction(actions'[i])]
    /\ pc' = "done"
    /\ UNCHANGED <<img, stack, inode_to_info, out, cur>>

\* ------------------------------------------------------ actions of the walk
\* A call: the callee's frame goes on the stack, unless the stack is full.
Call(stk, frame) ==
    IF Len(stk) >= MaxStack
    THEN /\ pc' = "aborted"
         /\ stack' = stk
    ELSE /\ pc' = pc
         /\ stack' = Append(stk, frame)

\* An exception thrown with the frames of stk active.
Throw(stk) ==
    LET rest == Unwind(stk)
    IN /\ stack' = rest
       /\ pc' = IF rest = <<>> THEN "aborted" ELSE pc

\* traverseDirectory up to its first loop: read the inode, return unless it
\* is a directory, print its line.
TraverseEnter ==
    /\ pc = "walk"
    /\ stack # <<>>
    /\ Top.fn = "traverseDirectory"
    /\ Top.stage = "enter"
    /\ IF InodeThrows(Top.inode)
       THEN /\ Throw(Pop(stack))
            /\ out' = out
       ELSE IF ~readInode(Top.inode).mode_dir
       THEN /\ stack' = Pop(stack)
            /\ UNCHANGED <<out, pc>>
       ELSE /\ out' = IF Top.name # "" \/ Top.depth = 1
                      THEN Append(out, DirLine(Top.depth, Top.inode, Top.name, Top.ghost))
                      ELSE out
            /\ stack' = SetTop(stack, [Top EXCEPT !.stage = "blocks", !.at = 1])
            /\ pc' = pc
    /\ UNCHANGED <<img, inode_to_info, actions, printed, cur>>

\* The arguments the walk hands to the block scanner: the calls for direct
\* and single-indirect blocks pass (…, inode_num, is_ghost); the calls for
\* double- and triple-indirect blocks pass (…, is_ghost), which lands in
\* dir_inode and leaves parent_is_ghost at its default.
ScanCall(f, b) ==
    IF b.via \in {"direct", "single"}
    THEN ProcFrame(img.blocks[b.blk].recs, f.depth + 1, f.path, f.inode, f.ghost)
    ELSE ProcFrame(img.blocks[b.blk].recs, f.depth + 1, f.path,
                   IF f.ghost THEN 1 ELSE 0, FALSE)

\* The next data block of the directory: read it and scan it, or return
\* when none is left.
TraverseBlock ==
    /\ pc = "walk"
    /\ stack # <<>>
    /\ Top.fn = "traverseDirectory"
    /\ Top.stage = "blocks"
    /\ IF Top.at > Len(DataBlocks(Top.inode))
       THEN /\ stack' = Pop(stack)
            /\ pc' = pc
       ELSE LET b == DataBlocks(Top.inode)[Top.at]
            IN IF BlockThrows(b.blk)
               THEN /\ stack' = SetTop(stack, Catch(Top))
                    /\ pc' = pc
               ELSE Call(stack, ScanCall(Top, b))
    /\ img' = IF Top.at <= Len(DataBlocks(Top.inode))
                 /\ BlockThrows(DataBlocks(Top.inode)[Top.at].blk)
              THEN [img EXCEPT !.failbit = TRUE]
              ELSE img
    /\ UNCHANGED <<inode_to_info, out, actions, printed, cur>>

\* The while loop of processDirectoryBlockWithGhosts over the block.
ScanBlock ==
    /\ pc = "walk"
    /\ stack # <<>>
    /\ Top.fn = "processDirectoryBlockWithGhosts"
    /\ Top.stage = "scan"
    /\ LET st == ScanRecords(Top.recs,
                    [index |-> inode_to_info, active_inodes |-> {},
                     active_entries |-> <<>>, all_ghosts |-> <<>>, threw |-> FALSE],
                    Top.path, Top.inode)
       IN /\ inode_to_info' = st.index
          /\ IF st.threw
             THEN Throw(Pop(stack))
             ELSE /\ stack' = SetTop(stack,
                         [Top EXCEPT !.stage = "active", !.at = 1,
                                     !.active_entries = st.active_entries,
                                     !.all_ghosts = st.all_ghosts])
                  /\ pc' = pc
    /\ UNCHANGED <<img, out, actions, printed, cur>>

\* A live file printed whether or not its directory is in a ghost subtree.
LiveFileLinesAlways(parent_is_ghost, depth, inode, name) ==
    <<FileLine(depth, inode, name)>>
\* What the loop over active_entries prints for a non-directory record:
\* nothing inside a ghost subtree.
LiveFileLines(parent_is_ghost, depth, inode, name) ==
    IF parent_is_ghost THEN <<>> ELSE <<FileLine(depth, inode, name)>>

\* One turn of the loop over active_entries.
EmitActive ==
    /\ pc = "walk"
    /\ stack # <<>>
    /\ Top.fn = "processDirectoryBlockWithGhosts"
    /\ Top.stage = "active"
    /\ IF Top.at > Len(Top.active_entries)
       THEN /\ stack' = SetTop(stack, [Top EXCEPT !.stage = "ghosts", !.at = 1])
            /\ UNCHANGED <<out, pc>>
       ELSE LET e == Top.active_entries[Top.at]
                here == SetTop(stack, [Top EXCEPT !.at = @ + 1])
            IN IF e.dir
               THEN /\ Call(here, TravFrame(e.inode, Top.depth,
                                            JoinPath(Top.path, e.name), e.name, Top.ghost))
                    /\ out' = out
               ELSE /\ stack' = here
                    /\ out' = out \o LiveFileLines(Top.ghost, Top.depth, e.inode, e.name)
                    /\ pc' = pc
    /\ UNCHANGED <<img, inode_to_info, actions, printed, cur>>

\* One turn of the loop over all_ghosts; the scanner returns after the last.
EmitGhost ==
    /\ pc = "walk"
    /\ stack # <<>>
    /\ Top.fn = "processDirectoryBlockWithGhosts"
    /\ Top.stage = "ghosts"
    /\ IF Top.at > Len(Top.all_ghosts)
       THEN /\ stack' = LET rest == Pop(stack)
                        IN SetTop(rest, [rest[Len(rest)] EXCEPT !.at = @ + 1])
            /\ UNCHANGED <<out, pc>>
       ELSE LET g == Top.all_ghosts[Top.at]
                here == SetTop(stack, [Top EXCEPT !.at = @ + 1])
            IN IF g.dir
               THEN /\ Call(here, TravFrame(g.inode, Top.depth,
                                            JoinPath(Top.path, g.name), g.name, TRUE))
                    /\ out' = out
               ELSE /\ stack' = here
                    /\ out' = IF ~Top.ghost
                              THEN Append(out, GhostFileLine(Top.depth, g.inode, g.name))
                              ELSE out
                    /\ pc' = pc
    /\ UNCHANGED <<img, inode_to_info, actions, printed, cur>>

\* displayDirectoryTree has returned; main calls recovery().
StartRecovery ==
    /\ pc = "walk"
    /\ stack = <<>>
    /\ pc' = "infer"
    /\ UNCHANGED <<img, stack, inode_to_info, out, actions, printed, cur>>

\* ------------------------------------------ inference over enumerated indexes
RootDir == EXT2_ROOT_INODE
SubDir == EXT2_ROOT_INODE + 1
Target == EXT2_ROOT_INODE + 3

\* The references the enumerated lists are made of: ghosts under two names
\* in the root directory and under one in the subdirectory /s, and the live
\* name /d in the root directory.
EntryPool ==
    {EntryRecord("/c", "c", RootDir, TRUE),
     EntryRecord("/d", "d", RootDir, TRUE),
     EntryRecord("/s/c", "c", SubDir, TRUE),
     EntryRecord("/d", "d", RootDir, FALSE)}

EntryLists == UNION {[1..n -> EntryPool] : n \in 1..MaxEntries}

DirInode(mtime, atime) ==
    [mode_dir |-> TRUE, access_time |-> atime, modification_time |-> mtime,
     change_time |-> mtime, deletion_time |-> 0, blocks |-> <<>>]

InitInfer ==
    /\ \E isdir \in BOOLEAN, at \in Times, ct \in {1, MaxTime}, dt \in Times,
          pm \in {0, 1, MaxTime}, pa \in {0, MaxTime} :
         img = [inodes |->
                  [n \in InodeNums |->
                     CASE n = RootDir -> DirInode(pm, pa)
                       [] n = SubDir -> DirInode(1, 1)
                       [] n = Target ->
                            [mode_dir |-> isdir, access_time |-> at,
                             modification_time |-> 1, change_time |-> ct,
                             deletion_time |-> dt, blocks |-> <<>>]
                       [] OTHER -> ZeroInode],
                blocks |-> <<>>,
                failbit |-> FALSE]
    /\ \E es \in EntryLists :
         inode_to_info =
            [n \in InodeNums |->
               CASE n = Target -> [inode_data |-> InodeData(n), entries |-> es]
                 [] OTHER -> [inode_data |-> ZeroData, entries |-> <<>>]]
    /\ stack = <<>>
    /\ out = <<>>
    /\ actions = <<>>
    /\ printed = <<>>
    /\ cur = 0
    /\ pc = "infer"

\* ------------------------------------------------ the walk over small images
LostFound == EXT2_ROOT_INODE + 1
FileA == EXT2_ROOT_INODE + 2
FileB == EXT2_ROOT_INODE + 3
\* Most records after "." and ".." in the root directory's block.
MaxRecs == 2

Rec(inode, name, dir, ghosts) ==
    [inode |-> inode, name |-> name, dir |-> dir, ghosts |-> ghosts]
Ghost(inode, name, dir) == [inode |-> inode, name |-> name, dir |-> dir]

Dot(inode) == Rec(inode, ".", TRUE, <<>>)
DotDot(inode) == Rec(inode, "..", TRUE, <<>>)

\* Residue the slack of a record of the root block may hold.
RootSlack ==
    {<<>>, <<Ghost(FileA, "c", FALSE)>>, <<Ghost(FileB, "b", FALSE)>>,
     <<Ghost(LostFound, "t", TRUE)>>}

\* Records of the root block: the directory lost+found, the file a, and a
\* dead record (inode 0) that only carries slack.
RootRecs ==
    {Rec(LostFound, "lost+found", TRUE, g) :
        g \in {g \in RootSlack : g = <<>> \/ g[1].inode = FileA}}
    \cup {Rec(FileA, "a", FALSE, g) :
        g \in {g \in RootSlack : g = <<>> \/ ~g[1].dir}}
    \cup {Rec(0, "x", FALSE, g) : g \in RootSlack \ {<<>>}}

RootBodies == UNION {[1..n -> RootRecs] : n \in 0..MaxRecs}

\* What follows "." and ".." in the block of lost+found.
SubBodies ==
    {<<>>,
     <<Rec(FileA, "e", FALSE, <<>>)>>,
     <<Rec(FileA, "e", FALSE, <<Ghost(FileB, "b", FALSE)>>)>>,
     <<Rec(0, "x", FALSE, <<Ghost(FileA, "c", FALSE)>>)>>}

WalkInode(isdir, at, mt, ct, dt, blocks) ==
    [mode_dir |-> isdir, access_time |-> at, modification_time |-> mt,
     change_time |-> ct, deletion_time |-> dt, blocks |-> blocks]

EmptyIndex == [n \in InodeNums |-> [inode_data |-> ZeroData, entries |-> <<>>]]

\* An image: the root directory with one direct data block holding body,
\* the directory lost+found with the data blocks lf (pointer level and
\* content of each), two files and a third one.
FileC == EXT2_ROOT_INODE + 4

Image(rootdir, body, lf) ==
    [inodes |->
       [n \in InodeNums |->
          CASE n = EXT2_ROOT_INODE ->
                 WalkInode(rootdir, 1, 2, 2, 0, <<[via |-> "direct", blk |-> 1]>>)
            [] n = LostFound ->
                 WalkInode(TRUE, 1, 1, 1, 0,
                           [k \in 1..Len(lf) |-> [via |-> lf[k].via, blk |-> k + 1]])
            [] n = FileA -> WalkInode(FALSE, 1, 1, 2, 0, <<>>)
            [] n = FileB -> WalkInode(FALSE, 1, 1, 2, 2, <<>>)
            [] n = FileC -> WalkInode(FALSE, 1, 1, 1, 0, <<>>)
            [] OTHER -> ZeroInode],
     blocks |->
       <<[readable |-> TRUE,
          recs |-> <<Dot(EXT2_ROOT_INODE), DotDot(EXT2_ROOT_INODE)>> \o body]>>
       \o [k \in 1..Len(lf) |->
             [readable |-> lf[k].readable,
              recs |-> IF k = 1
                       THEN <<Dot(LostFound), DotDot(EXT2_ROOT_INODE)>> \o lf[k].recs
                       ELSE lf[k].recs]],
     failbit |-> FALSE]

\* Sound images: lost+found has one data block, reached through a direct
\* or a double-indirect pointer.
SoundImages ==
    {Image(rootdir, body, <<[via |-> via, readable |-> TRUE, recs |-> sub]>>) :
        rootdir \in BOOLEAN, body \in RootBodies, sub \in SubBodies,
        via \in {"direct", "double"}}

\* Damaged images: lost+found, live or a ghost, has two data blocks on one
\* pointer level; the first may lie outside the image, and may hold a
\* record or a residue whose inode number is past the last group.
DamagedBodies ==
    {<<Rec(LostFound, "lost+found", TRUE, <<>>)>>,
     <<Rec(0, "x", FALSE, <<Ghost(LostFound, "t", TRUE)>>)>>}

DamagedSubs ==
    {<<Rec(FileA, "e", FALSE, <<>>)>>,
     <<Rec(BadInode, "z", FALSE, <<>>), Rec(FileA, "e", FALSE, <<>>)>>,
     <<Rec(FileA, "e", FALSE, <<Ghost(BadInode, "z", FALSE)>>)>>}

DamagedImages ==
    {Image(TRUE, body,
           <<[via |-> via, readable |-> readable, recs |-> sub],
             [via |-> via, readable |-> TRUE,
              recs |-> <<Rec(FileC, "f", FALSE, <<>>)>>]>>) :
        body \in DamagedBodies, sub \in DamagedSubs, readable \in BOOLEAN,
        via \in {"direct", "single", "double"}}

\* Images with a cycle: the block of lost+found holds a live directory
\* record of lost+found itself, or the residue of a directory record of the
\* root (the root was once inside lost+found).
CyclicSubs ==
    {<<Rec(LostFound, "u", TRUE, <<>>)>>,
     <<Rec(0, "x", FALSE, <<Ghost(EXT2_ROOT_INODE, "r", TRUE)>>)>>}

CyclicImages ==
    {Image(TRUE, <<Rec(LostFound, "lost+found", TRUE, <<>>)>>,
           <<[via |-> "direct", readable |-> TRUE, recs |-> sub]>>) :
        sub \in CyclicSubs}

\* A renamed directory: inode 6 is the directory d, live in the root block,
\* with the file e in its own block; the block of lost+found keeps the
\* residue of the record d had there before the rename.
RenamedImages ==
    {[Image(TRUE,
            <<Rec(LostFound, "lost+found", TRUE, <<>>), Rec(FileC, "d", TRUE, <<>>)>>,
            <<[via |-> "direct", readable |-> TRUE,
               recs |-> <<Rec(0, "x", FALSE, <<Ghost(FileC, "d", TRUE)>>)>>]>>)
        EXCEPT !.inodes[FileC] =
                   WalkInode(TRUE, 1, 1, 1, 0, <<[via |-> "direct", blk |-> 3]>>),
               !.blocks = @ \o <<[readable |-> TRUE,
                                  recs |-> <<Dot(FileC), DotDot(EXT2_ROOT_INODE)>>
                                           \o sub]>>] :
        sub \in {<<>>, <<Rec(FileA, "e", FALSE, <<>>)>>}}

\* Ext2FileSystem's constructor has read the superblock and the group
\* table; displayDirectoryTree is about to call traverseDirectory on the root.
Init ==
    /\ img \in SoundImages \cup DamagedImages \cup CyclicImages \cup RenamedImages
    /\ stack = <<TravFrame(EXT2_ROOT_INODE, 1, "", "root", FALSE)>>
    /\ inode_to_info = EmptyIndex
    /\ out = <<>>
    /\ actions = <<>>
    /\ printed = <<>>
    /\ cur = 0
    /\ pc = "walk"

Next ==
    \/ TraverseEnter
    \/ TraverseBlock
    \/ ScanBlock
    \/ EmitActive
    \/ EmitGhost
    \/ StartRecovery
    \/ InferInode
    \/ SortAndPrint

Spec == Init /\ [][Next]_vars

\* The program is one sequential process: a step that can be taken is taken.
SpecFair == Init /\ [][Next]_vars /\ WF_vars(Next)

\* The inference and the printing alone, started on every index InitInfer
\* enumerates.
NextInfer == InferInode \/ SortAndPrint

SpecInfer == InitInfer /\ [][NextInfer]_vars

\* ------------------------------------------------------ the ghost scavenger
\* sizeof(ext2_dir_entry): the fixed part of a directory record (inode,
\* length, name_length, file_type), before the name.
SizeofDirEntry == 8

\* Little-endian fields of the buffer; off counts bytes from 0.
U16(buf, off) == buf[off + 1] + 256 * buf[off + 2]
U32(buf, off) ==
    buf[off + 1] + 256 * buf[off + 2] + 65536 * buf[off + 3] + 16777216 * buf[off + 4]

\* reinterpret_cast<const ext2_dir_entry*>(block_buffer.data() + offset)
DirEntryAt(buf, off) ==
    [inode |-> U32(buf, off), length |-> U16(buf, off + 4),
     name_length |-> buf[off + 7], file_type |-> buf[off + 8]]

\* std::string(entry->name, entry->name_length): the bytes after the header.
NameAt(buf, off, n) == SubSeq(buf, off + 9, off + 8 + n)

\* uint32_t calculateEntrySize(uint8_t name_length)
calculateEntrySize(name_length) == ((8 + name_length + 3) \div 4) * 4

\* The names "." and ".." as bytes.
DotName == <<46>>
DotDotName == <<46, 46>>

\* The rejection test without the test against the end of the slack.
RejectedOnShapeOnly(e, offset, end) ==
    \/ e.inode = 0
    \/ e.name_length = 0
    \/ e.name_length > 255
    \/ e.length = 0
\* The test under which the cursor slides on by 4.
Rejected(e, offset, end) ==
    \/ e.inode = 0
    \/ e.name_length = 0
    \/ e.name_length > 255
    \/ e.length = 0
    \/ offset + e.name_length + 8 > end

\* The frame of findGhostEntries(block_buffer, start_offset, available_space).
ScavFrame(block_buffer, start_offset, available_space) ==
    [fn |-> "findGhostEntries", block_buffer |-> block_buffer,
     start_offset |-> start_offset, available_space |-> available_space,
     offset |-> start_offset, ghosts |-> <<>>, beyond |-> <<>>]

\* What a read through block_buffer.data() finds: the bytes of the vector,
\* then the bytes that happen to follow it in memory (field beyond); a read
\* further on faults.
Memory(f) == f.block_buffer \o f.beyond

\* One turn of the while loop of findGhostEntries.
FindGhostStep ==
    /\ pc = "scavenge"
    /\ Top.offset + SizeofDirEntry <= Top.start_offset + Top.available_space
    /\ IF Top.offset + SizeofDirEntry > Len(Memory(Top))
       THEN /\ pc' = "aborted"
            /\ stack' = stack
       ELSE LET potential_entry == DirEntryAt(Memory(Top), Top.offset)
                end == Top.start_offset + Top.available_space
            IN IF Rejected(potential_entry, Top.offset, end)
               THEN /\ stack' = SetTop(stack, [Top EXCEPT !.offset = @ + 4])
                    /\ pc' = pc
               ELSE IF Top.offset + 8 + potential_entry.name_length > Len(Memory(Top))
               THEN /\ pc' = "aborted"
                    /\ stack' = stack
               ELSE LET name == NameAt(Memory(Top), Top.offset,
                                       potential_entry.name_length)
                        ghost == [inode |-> potential_entry.inode, name |-> name,
                                  file_type |-> potential_entry.file_type]
                    IN /\ stack' = SetTop(stack,
                            [Top EXCEPT
                               !.ghosts = IF name # DotName /\ name # DotDotName
                                          THEN Append(@, ghost) ELSE @,
                               !.offset = @ + calculateEntrySize(
                                                 potential_entry.name_length)])
                       /\ pc' = pc
    /\ UNCHANGED <<img, inode_to_info, out, actions, printed, cur>>

\* The loop condition fails: return ghosts.
FindGhostReturn ==
    /\ pc = "scavenge"
    /\ ~(Top.offset + SizeofDirEntry <= Top.start_offset + Top.available_space)
    /\ pc' = "scavenged"
    /\ UNCHANGED <<img, stack, inode_to_info, out, actions, printed, cur>>

\* What slack is made of: an empty word, the inode word and the header word
\* of a record, and whole records: the file a, ".", "..", the file bbbbb
\* (13 bytes, 16 with padding), a record with length 0 and one with
\* name_length 0.
ZeroWord == <<0, 0, 0, 0>>
InodeWord == <<4, 0, 0, 0>>
HeaderWord == <<12, 0, 1, 1>>
SlackPieces ==
    {ZeroWord, InodeWord, HeaderWord,
     InodeWord \o HeaderWord \o <<97, 0, 0, 0>>,
     InodeWord \o <<12, 0, 1, 2>> \o <<46, 0, 0, 0>>,
     InodeWord \o <<12, 0, 2, 2>> \o <<46, 46, 0, 0>>,
     <<5, 0, 0, 0>> \o <<16, 0, 5, 1>> \o <<98, 98, 98, 98>> \o <<98, 0, 0, 0>>,
     InodeWord \o <<0, 0, 1, 1>> \o <<97, 0, 0, 0>>,
     InodeWord \o <<12, 0, 0, 1>> \o ZeroWord}

RECURSIVE Concat(_)
Concat(ps) == IF ps = <<>> THEN <<>> ELSE Head(ps) \o Concat(Tail(ps))

SlackBodies == {Concat(ps) : ps \in UNION {[1..n -> SlackPieces] : n \in 0..MaxPieces}}

\* The scavenger called on a slack inside a block: the slack starts at byte
\* 0 or 4 of the enumerated bytes, ends anywhere up to their end, and is
\* followed in the block by the next live record.
InitSlack ==
    /\ \E body \in SlackBodies, start \in {0, 4} :
         /\ start <= Len(body)
         /\ \E available \in 0..(Len(body) - start) :
              stack = <<ScavFrame(body \o InodeWord \o HeaderWord, start, available)>>
    /\ img = [inodes |-> [n \in InodeNums |-> ZeroInode], blocks |-> <<>>,
              failbit |-> FALSE]
    /\ inode_to_info = EmptyIndex
    /\ out = <<>>
    /\ actions = <<>>
    /\ printed = <<>>
    /\ cur = 0
    /\ pc = "scavenge"

NextSlack == FindGhostStep \/ FindGhostReturn

SpecSlack == InitSlack /\ [][NextSlack]_vars

\* ------------------------------------------- the block scanner, byte by byte
\* The frame of processDirectoryBlockWithGhosts with its block as bytes.
ByteScanFrame(block_buffer, beyond) ==
    [fn |-> "processDirectoryBlockWithGhosts", block_buffer |-> block_buffer,
     beyond |-> beyond, offset |-> 0, active_inodes |-> {},
     active_entries |-> <<>>, all_ghosts |-> <<>>]

\* One turn of "while (offset < block_size)" up to the call of the
\* scavenger (the inode reads and the index are left to the walk above).
ScanBytes ==
    /\ pc = "scan"
    /\ LET block_size == Len(Top.block_buffer)
       IN IF Top.offset >= block_size
          THEN /\ pc' = "scanned"
               /\ stack' = stack
          ELSE IF Top.offset + SizeofDirEntry > Len(Memory(Top))
          THEN /\ pc' = "aborted"
               /\ stack' = stack
          ELSE LET entry == DirEntryAt(Memory(Top), Top.offset)
               IN IF entry.length = 0
                  THEN /\ pc' = "scanned"
                       /\ stack' = stack
                  ELSE IF /\ entry.inode # 0
                          /\ Top.offset + 8 + entry.name_length > Len(Memory(Top))
                  THEN /\ pc' = "aborted"
                       /\ stack' = stack
                  ELSE LET name == NameAt(Memory(Top), Top.offset, entry.name_length)
                           f == IF /\ entry.inode # 0
                                   /\ name # DotName
                                   /\ name # DotDotName
                                THEN [Top EXCEPT
                                        !.active_inodes = @ \cup {entry.inode},
                                        !.active_entries =
                                            Append(@, [name |-> name,
                                                       inode |-> entry.inode,
                                                       file_type |-> entry.file_type])]
                                ELSE Top
                           actual_size == calculateEntrySize(entry.name_length)
                       IN IF entry.length > actual_size
                          THEN /\ stack' = Append(SetTop(stack, f),
                                    [ScavFrame(Top.block_buffer,
                                               Top.offset + actual_size,
                                               entry.length - actual_size)
                                       EXCEPT !.beyond = Top.beyond])
                               /\ pc' = "scavenge"
                          ELSE /\ stack' = SetTop(stack,
                                    [f EXCEPT !.offset = @ + entry.length])
                               /\ pc' = pc
    /\ UNCHANGED <<img, inode_to_info, out, actions, printed, cur>>

\* findGhostEntries has returned to the scanner: keep the ghosts whose inode
\* is not in active_inodes and move on by entry->length.
ScanResume ==
    /\ pc = "scavenged"
    /\ Len(stack) >= 2
    /\ LET ghosts == Top.ghosts
           f == stack[Len(stack) - 1]
           entry == DirEntryAt(Memory(f), f.offset)
       IN stack' = SetTop(Pop(stack),
             [f EXCEPT !.all_ghosts =
                          @ \o SelectSeq(ghosts,
                                  LAMBDA g : GhostAdmitted(g, f.active_inodes)),
                       !.offset = @ + entry.length])
    /\ pc' = "scan"
    /\ UNCHANGED <<img, inode_to_info, out, actions, printed, cur>>

\* What blocks are made of: the record a with length 12 (no slack), 24
\* and 32 (12 and 20 bytes of slack) and 64 (running far past the block),
\* a dead record with length 24, the 16-byte record bbbbb, and single words.
BlockPieces ==
    {InodeWord \o HeaderWord \o <<97, 0, 0, 0>>,
     InodeWord \o <<24, 0, 1, 1>> \o <<97, 0, 0, 0>>,
     InodeWord \o <<32, 0, 1, 1>> \o <<97, 0, 0, 0>>,
     InodeWord \o <<64, 0, 1, 1>> \o <<97, 0, 0, 0>>,
     ZeroWord \o <<24, 0, 1, 1>> \o <<97, 0, 0, 0>>,
     <<5, 0, 0, 0>> \o <<16, 0, 5, 1>> \o <<98, 98, 98, 98>> \o <<98, 0, 0, 0>>,
     ZeroWord, InodeWord}

\* block_size is a power of two (scaled down from 1024 << n).
BlockSizes == {16, 32}

BlockBodies ==
    {b \in {Concat(ps) :
               ps \in UNION {[1..n -> BlockPieces] : n \in 1..(MaxPieces + 1)}} :
        Len(b) \in BlockSizes}

\* What may follow the vector in memory: nothing readable, or stray bytes.
StrayBytes ==
    {<<>>, <<7, 0, 0, 0>> \o <<12, 0, 1, 1>> \o <<99, 0, 0, 0>> \o ZeroWord}

\* processDirectoryBlockWithGhosts called on a block that readBlock returned.
InitBlock ==
    /\ \E body \in BlockBodies, stray \in StrayBytes :
         stack = <<ByteScanFrame(body, stray)>>
    /\ img = [inodes |-> [n \in InodeNums |-> ZeroInode], blocks |-> <<>>,
              failbit |-> FALSE]
    /\ inode_to_info = EmptyIndex
    /\ out = <<>>
    /\ actions = <<>>
    /\ printed = <<>>
    /\ cur = 0
    /\ pc = "scan"

NextBlock == ScanBytes \/ FindGhostStep \/ FindGhostReturn \/ ScanResume

SpecBlock == InitBlock /\ [][NextBlock]_vars

\* ================================================================ claims
CreationKinds == {"mkdir", "touch"}
DeletionKinds == {"rmdir", "rm"}

\* The positions of the history lines whose affected inode is n.
LinesOf(n) == {k \in 1..Len(printed) : printed[k].inodes = <<NumStr(n)>>}

\* The number a printed field stands for.
StrNum(str) == CHOOSE n \in 0..99 : NumStr(n) = str
ShownTime(t) == IF t = 0 THEN "?" ELSE NumStr(t)
ShownInode(i) == IF i = 0 THEN "?" ELSE NumStr(i)

RefsOf(n) == inode_to_info[n].entries
DataOf(n) == inode_to_info[n].inode_data
InfoOf(n) == getGhostsandLive(RefsOf(n), DataOf(n), 0)

\* C1: when the history is printed, every inode of the index has exactly one
\* creation line; its kind is mkdir for a directory mode and touch otherwise,
\* its timestamp is the snapshot's access_time and its inode is that inode.
C1_OneCreationPerInode ==
    pc = "done" =>
      \A n \in Keys :
        LET S == {k \in LinesOf(n) : printed[k].action \in CreationKinds}
        IN /\ Cardinality(S) = 1
           /\ \A k \in S :
                /\ printed[k].action = (IF DataOf(n).mode_dir THEN "mkdir" ELSE "touch")
                /\ printed[k].ts = ShownTime(DataOf(n).access_time)
                /\ actions[k].timestamp = DataOf(n).access_time
                /\ actions[k].affected_inodes = <<n>>

\* C1 witness: a printed history of an index holding a directory inode with
\* several ghosts and a live reference.
C1_Witness ==
    /\ pc = "done"
    /\ \E n \in Keys : CountGhost(RefsOf(n)) >= 2 /\ CountLive(RefsOf(n)) = 1
                       /\ DataOf(n).mode_dir

\* C2 (as claimed): every inode of the index with deletion_time != 0 has
\* exactly one deletion line, timestamped deletion_time, whatever L and G.
C2_OneDeletionPerDeleted ==
    pc = "done" =>
      \A n \in Keys :
        DataOf(n).deletion_time # 0 =>
          LET S == {k \in LinesOf(n) : printed[k].action \in DeletionKinds}
          IN /\ Cardinality(S) = 1
             /\ \A k \in S : actions[k].timestamp = DataOf(n).deletion_time

\* C3 (as claimed): an inode whose Creation and Live references are both
\* identified with different paths has at least one mv line.
C3_MoveWhenCreationDiffersFromLive ==
    pc = "done" =>
      \A n \in Keys :
        (/\ InfoOf(n).foundCreation
         /\ InfoOf(n).live_count >= 1
         /\ InfoOf(n).CreationEntry.full_path # InfoOf(n).LiveEntry.full_path)
        => \E k \in LinesOf(n) : printed[k].action = "mv"

\* C5: the printed history is sorted: no line with a known timestamp comes
\* before a line printed "?", and known timestamps never decrease.
C5_LogSorted ==
    pc = "done" =>
      \A i, j \in 1..Len(printed) :
        i < j =>
          /\ printed[j].ts = "?" => printed[i].ts = "?"
          /\ (printed[i].ts # "?" /\ printed[j].ts # "?")
               => StrNum(printed[i].ts) <= StrNum(printed[j].ts)

\* C5 witness: a printed history with an unknown timestamp and two
\* different known ones.
C5_Witness ==
    /\ pc = "done"
    /\ \E i, j, k \in 1..Len(printed) :
         /\ printed[i].ts = "?"
         /\ printed[j].ts # "?" /\ printed[k].ts # "?"
         /\ printed[j].ts # printed[k].ts

\* ------------------------------------------------------------ C4
ProcTop ==
    /\ pc = "walk"
    /\ stack # <<>>
    /\ Top.fn = "processDirectoryBlockWithGhosts"

\* The inodes named by the live records 1..k of a block, "." and ".." apart.
NamedUpTo(recs, k) ==
    {recs[j].inode : j \in {i \in 1..k : /\ recs[i].inode # 0
                                         /\ recs[i].name \notin {".", ".."}}}

\* The residues of a block: <<k, m>> is the m-th in the slack of record k.
SlackOf(recs) ==
    UNION {{<<k, m>> : m \in 1..Len(recs[k].ghosts)} : k \in 1..Len(recs)}

\* The residues for inode i that no live record at or before theirs names.
KeptFor(recs, i) ==
    {p \in SlackOf(recs) : /\ recs[p[1]].ghosts[p[2]].inode = i
                           /\ i \notin NamedUpTo(recs, p[1])}

ImageNames ==
    UNION {{img.blocks[b].recs[k].name : k \in 1..Len(img.blocks[b].recs)}
           \cup UNION {{img.blocks[b].recs[k].ghosts[m].name :
                          m \in 1..Len(img.blocks[b].recs[k].ghosts)} :
                       k \in 1..Len(img.blocks[b].recs)} :
           b \in 1..Len(img.blocks)}

GhostLinesOf(n) ==
    {GhostFileLine(d, n, nm) : d \in 1..MaxStack, nm \in ImageNames}
    \cup {DirLine(d, n, nm, TRUE) : d \in 2..MaxStack, nm \in ImageNames}

C6_RootLineFirstAlways ==
    pc # "walk" =>
      /\ out # <<>>
      /\ out[1] = "- 2:root/"
      /\ \A k \in 2..Len(out) : out[k] # "- 2:root/"

\* C6 (amended): when inode 2 has the directory bit the tree output begins
\* with "- 2:root/" and no other line is a root line; when it has not, the
\* tree output stays empty.
C6_RootLineFirstIfDirectory ==
    /\ out # <<>> => /\ out[1] = "- 2:root/"
                     /\ \A k \in 2..Len(out) : out[k] # "- 2:root/"
    /\ (img.inodes[EXT2_ROOT_INODE].mode_dir /\ pc # "walk") => out # <<>>
    /\ ~img.inodes[EXT2_ROOT_INODE].mode_dir => out = <<>>

\* C6 witness: a finished run on an image whose root is a directory, with
\* lines below the root line.
C6_Witness ==
    /\ pc = "done"
    /\ img.blocks # <<>>
    /\ img.inodes[EXT2_ROOT_INODE].mode_dir
    /\ Len(out) >= 3

\* ------------------------------------------------------------ C7
\* The image holding only the root directory and lost+found.
FreshImage ==
    /\ Len(img.blocks) = 2
    /\ \A b \in 1..2 : img.blocks[b].readable
    /\ img.inodes[EXT2_ROOT_INODE].mode_dir
    /\ img.blocks[1].recs = <<Dot(EXT2_ROOT_INODE), DotDot(EXT2_ROOT_INODE),
                              Rec(LostFound, "lost+found", TRUE, <<>>)>>
    /\ img.blocks[2].recs = <<Dot(LostFound), DotDot(EXT2_ROOT_INODE)>>

\* C7 (as claimed): on the image with only root and lost+found the tree has
\* exactly two lines and the history exactly two mkdir lines, one for the
\* root directory and one for lost+found.
C7_FreshImageTwoMkdirs ==
    (pc = "done" /\ FreshImage) =>
      /\ out = <<"- 2:root/", "-- 3:lost+found/">>
      /\ Len(printed) = 2
      /\ \A k \in 1..2 : printed[k].action = "mkdir"
      /\ \E k \in 1..2 : printed[k].inodes = <<NumStr(EXT2_ROOT_INODE)>>
      /\ \E k \in 1..2 : printed[k].inodes = <<NumStr(LostFound)>>

\* ------------------------------------------------------------ C8
\* Scenario 5: a deleted non-directory inode with two ghosts, no live
\* reference, access_time < deletion_time, Creation and Deletion identified.
TwoGhostsDeleted(n) ==
    /\ CountGhost(RefsOf(n)) = 2
    /\ CountLive(RefsOf(n)) = 0
    /\ ~DataOf(n).mode_dir
    /\ DataOf(n).deletion_time # 0
    /\ DataOf(n).access_time < DataOf(n).deletion_time
    /\ InfoOf(n).foundCreation
    /\ InfoOf(n).foundDeletion

\* The lines of n are one touch of c, one mv c -> d and one rm of d.
TouchMvRm(n, kt, km, kr) ==
    LET c == InfoOf(n).CreationEntry
        d == InfoOf(n).DeletionEntry
    IN /\ LinesOf(n) = {kt, km, kr}
       /\ Cardinality({kt, km, kr}) = 3
       /\ printed[kt] = [ts |-> ShownTime(DataOf(n).access_time), action |-> "touch",
                         args |-> <<c.full_path>>, dirs |-> <<ShownInode(c.parent_inode)>>,
                         inodes |-> <<NumStr(n)>>]
       /\ printed[km] = [ts |-> "?", action |-> "mv",
                         args |-> <<c.full_path, d.full_path>>,
                         dirs |-> <<ShownInode(c.parent_inode), ShownInode(d.parent_inode)>>,
                         inodes |-> <<NumStr(n)>>]
       /\ printed[kr] = [ts |-> NumStr(DataOf(n).deletion_time), action |-> "rm",
                         args |-> <<d.full_path>>, dirs |-> <<ShownInode(d.parent_inode)>>,
                         inodes |-> <<NumStr(n)>>]

\* C8 (as claimed): the lines of such an inode are exactly touch [c],
\* mv [c d], rm [d], printed in that order.
C8_TouchMvRmInOrder ==
    pc = "done" =>
      \A n \in Keys :
        TwoGhostsDeleted(n) =>
          \E kt, km, kr \in LinesOf(n) :
            TouchMvRm(n, kt, km, kr) /\ kt < km /\ km < kr

\* C8 (amended): the lines of such an inode are exactly touch [c], mv [c d],
\* rm [d]; the touch precedes the rm, and the mv, whose timestamp is unknown,
\* precedes every line with a known timestamp: it follows the touch only
\* when access_time is 0.
C8_TouchMvRmUnknownFirst ==
    pc = "done" =>
      \A n \in Keys :
        TwoGhostsDeleted(n) =>
          \E kt, km, kr \in LinesOf(n) :
            /\ TouchMvRm(n, kt, km, kr)
            /\ kt < kr
            /\ km < kr
            /\ \A j \in 1..(km - 1) : printed[j].ts = "?"
            /\ DataOf(n).access_time # 0 => km < kt

\* C8 witness: the printed history of such an inode, created at a known time.
C8_Witness ==
    /\ pc = "done"
    /\ \E n \in Keys :
         /\ TwoGhostsDeleted(n)
         /\ DataOf(n).access_time # 0
         /\ InfoOf(n).CreationEntry.full_path # InfoOf(n).DeletionEntry.full_path

\* ------------------------------------------------------------ C9
\* C9 (as claimed): an inode with one ghost g, one live reference l and
\* deletion_time = 0 has exactly two lines: its creation at g's path and
\* parent, and one mv from g's path and parent to l's path and parent,
\* stamped change_time when that differs from modification_time and unknown
\* otherwise, in whichever order g and l were discovered.
C9_GhostToLiveMove ==
    pc = "done" =>
      \A n \in Keys :
        (/\ CountGhost(RefsOf(n)) = 1
         /\ CountLive(RefsOf(n)) = 1
         /\ DataOf(n).deletion_time = 0)
        => LET g == RefsOf(n)[CHOOSE k \in 1..2 : RefsOf(n)[k].is_ghost]
               l == RefsOf(n)[CHOOSE k \in 1..2 : ~RefsOf(n)[k].is_ghost]
           IN \E kc, km \in LinesOf(n) :
                /\ LinesOf(n) = {kc, km}
                /\ kc # km
                /\ printed[kc].action \in CreationKinds
                /\ printed[kc].args = <<g.full_path>>
                /\ printed[kc].dirs = <<ShownInode(g.parent_inode)>>
                /\ printed[km].action = "mv"
                /\ printed[km].args = <<g.full_path, l.full_path>>
                /\ printed[km].dirs = <<ShownInode(g.parent_inode), ShownInode(l.parent_inode)>>
                /\ printed[km].ts = ShownTime(ChangeStamp(DataOf(n)))

\* ------------------------------------------------------------ C10
\* C10: a deleted inode with one ghost g and no live reference has exactly
\* two lines: its creation and its deletion, both at g's path and parent,
\* stamped access_time and deletion_time; no mv.
C10_SingleGhostDeleted ==
    pc = "done" =>
      \A n \in Keys :
        (/\ CountGhost(RefsOf(n)) = 1
         /\ CountLive(RefsOf(n)) = 0
         /\ DataOf(n).deletion_time # 0)
        => LET g == RefsOf(n)[1]
           IN \E kc, kd \in LinesOf(n) :
                /\ LinesOf(n) = {kc, kd}
                /\ kc # kd
                /\ printed[kc] = [ts |-> ShownTime(DataOf(n).access_time),
                                  action |-> CreateKind(DataOf(n)),
                                  args |-> <<g.full_path>>,
                                  dirs |-> <<ShownInode(g.parent_inode)>>,
                                  inodes |-> <<NumStr(n)>>]
                /\ printed[kd] = [ts |-> NumStr(DataOf(n).deletion_time),
                                  action |-> DeleteKind(DataOf(n)),
                                  args |-> <<g.full_path>>,
                                  dirs |-> <<ShownInode(g.parent_inode)>>,
                                  inodes |-> <<NumStr(n)>>]

\* C10 witness: the printed history of such an inode, deleted after it was
\* last accessed.
C10_Witness ==
    /\ pc = "done"
    /\ \E n \in Keys :
         /\ CountGhost(RefsOf(n)) = 1
         /\ CountLive(RefsOf(n)) = 0
         /\ DataOf(n).deletion_time # 0
         /\ DataOf(n).access_time # 0
         /\ DataOf(n).access_time # DataOf(n).deletion_time

\* ------------------------------------------------------------ C11
\* C11 (as claimed): below the activation of traverseDirectory on a ghost
\* directory, every scan of a block and every deeper activation runs with
\* the "inside a ghost subtree" flag true, through whichever pointer level
\* the block is reached.
C11_GhostFlagStaysTrue ==
    pc = "walk" =>
      \A k \in 1..Len(stack) :
        (stack[k].fn = "traverseDirectory" /\ stack[k].ghost)
        => \A j \in (k + 1)..Len(stack) : stack[j].ghost

\* ------------------------------------------------------------ C13
\* The live records of a block that name inode i, "." and ".." apart.
NamedFor(recs, i) ==
    {k \in 1..Len(recs) : /\ recs[k].inode = i
                          /\ recs[k].name \notin {".", ".."}}

InGroups(i) == i # 0 /\ ((i - 1) \div InodesPerGroup) < NumBlockGroups

\* The block under scan names an inode past the last group, in a record or
\* in a residue.
NamesBadInode(recs) ==
    \E k \in 1..Len(recs) :
       \/ (recs[k].inode # 0 /\ ~InGroups(recs[k].inode))
       \/ \E m \in 1..Len(recs[k].ghosts) : ~InGroups(recs[k].ghosts[m].inode)

\* C13 (as claimed): the scan of a block that names an inode past the last
\* group skips only that inode: every live record of the block with an
\* inode inside the groups is registered in the index by the scan and is
\* queued to be printed and, if a directory, descended into.
C13_BadInodeSkippedAlone ==
    [][(/\ ProcTop
        /\ Top.stage = "scan"
        /\ ~img.failbit
        /\ NamesBadInode(Top.recs))
       => \A i \in InodeNums :
            /\ CountLive(inode_to_info'[i].entries)
                 = CountLive(inode_to_info[i].entries)
                   + Cardinality(NamedFor(Top.recs, i))
            /\ NamedFor(Top.recs, i) # {}
                 => /\ Len(stack') = Len(stack)
                    /\ \E m \in 1..Len(stack'[Len(stack')].active_entries) :
                         stack'[Len(stack')].active_entries[m].inode = i]_vars

\* ------------------------------------------------------------ C14
\* C14 (as claimed): in the loop of traverseDirectory over the data blocks
\* of a directory, a block whose read fails is the only one skipped: the
\* loop goes on with the block after it, and every block that lies inside
\* the image is scanned, on every pointer level.
C14_FailedBlockSkippedAlone ==
    [][(/\ pc = "walk"
        /\ stack # <<>>
        /\ Top.fn = "traverseDirectory"
        /\ Top.stage = "blocks"
        /\ Top.at <= Len(DataBlocks(Top.inode))
        /\ Len(stack) < MaxStack)
       => IF img.blocks[DataBlocks(Top.inode)[Top.at].blk].readable
          THEN /\ Len(stack') = Len(stack) + 1
               /\ stack'[Len(stack')].fn = "processDirectoryBlockWithGhosts"
          ELSE /\ Len(stack') = Len(stack)
               /\ stack'[Len(stack')].at = Top.at + 1]_vars

\* ------------------------------------------------------------ C15
\* C15: when the loop over active_entries of a scan running with the
\* ghost-subtree flag true comes to a non-directory record, it prints no
\* line, and the index holds the live EntryRecord of that record under its
\* inode.
C15_LiveFileUnderGhostSilent ==
    [][(/\ ProcTop
        /\ Top.stage = "active"
        /\ Top.ghost
        /\ Top.at <= Len(Top.active_entries)
        /\ ~Top.active_entries[Top.at].dir)
       => LET e == Top.active_entries[Top.at]
          IN /\ out' = out
             /\ \E k \in 1..Len(inode_to_info[e.inode].entries) :
                  inode_to_info[e.inode].entries[k]
                    = [full_path |-> "/" \o JoinPath(Top.path, e.name),
                       name |-> e.name, parent_inode |-> Top.inode,
                       is_ghost |-> FALSE]]_vars

\* C15 witness: a scan with the flag true has passed a non-directory record
\* in its loop over active_entries.
C15_Witness ==
    /\ ProcTop
    /\ Top.ghost
    /\ Top.stage \in {"active", "ghosts"}
    /\ \E m \in 1..Len(Top.active_entries) :
         /\ ~Top.active_entries[m].dir
         /\ (Top.stage = "active" => m < Top.at)

\* ------------------------------------------------------------ C16
\* C16: when the loop over all_ghosts (the residues registered with
\* ghost = true) comes to a non-directory ghost, it prints the parenthesized
\* line of that ghost, whether or not the scanned directory is itself in a
\* ghost subtree; when it comes to a ghost directory, it calls
\* traverseDirectory on it with the ghost flag true.
C16_EveryRegisteredGhostPrinted ==
    [][(/\ ProcTop
        /\ Top.stage = "ghosts"
        /\ Top.at <= Len(Top.all_ghosts))
       => LET g == Top.all_ghosts[Top.at]
          IN IF g.dir
             THEN /\ Len(stack') = Len(stack) + 1
                  /\ stack'[Len(stack')].fn = "traverseDirectory"
                  /\ stack'[Len(stack')].inode = g.inode
                  /\ stack'[Len(stack')].ghost
             ELSE out' = Append(out, GhostFileLine(Top.depth, g.inode, g.name))]_vars

\* ------------------------------------------------------------ C17
\* C17: a completed scan of one block registers no ghost reference, and
\* queues no ghost for printing, for an inode that a live record of that
\* block names, whether that record lies before or after the slack the
\* residue was found in.
C17_NoGhostOfInodeLiveInBlock ==
    [][(/\ ProcTop
        /\ Top.stage = "scan"
        /\ pc' = "walk"
        /\ Len(stack') = Len(stack))
       => \A i \in NamedUpTo(Top.recs, Len(Top.recs)) :
            /\ CountGhost(inode_to_info'[i].entries) = CountGhost(inode_to_info[i].entries)
            /\ \A m \in 1..Len(stack'[Len(stack')].all_ghosts) :
                 stack'[Len(stack')].all_ghosts[m].inode # i]_vars

\* ------------------------------------------------------------ C18
\* The ghosts of inode n whose parent directory has modification_time equal
\* to the access_time of n.
ExactGhosts(n) ==
    {k \in 1..Len(RefsOf(n)) :
        /\ RefsOf(n)[k].is_ghost
        /\ readInode(RefsOf(n)[k].parent_inode).modification_time
             = DataOf(n).access_time}

\* C18: in the printed history of an inode with two or more ghosts (and at
\* most one live reference), when some ghost's parent has modification_time
\* equal to the inode's access_time, the creation line is at the path and
\* parent of a ghost with that exact match, in whichever order the ghosts
\* were discovered. (An inode with no live reference and deletion_time = 0
\* is left out: its inference reads an unset LiveEntry.)
C18_ExactMatchDecidesCreation ==
    pc = "done" =>
      \A n \in Keys :
        (/\ CountGhost(RefsOf(n)) >= 2
         /\ CountLive(RefsOf(n)) <= 1
         /\ ~ReadsUnsetLive(RefsOf(n), DataOf(n))
         /\ ExactGhosts(n) # {})
        => \E kc \in LinesOf(n), g \in ExactGhosts(n) :
             /\ printed[kc].action \in CreationKinds
             /\ printed[kc].args = <<RefsOf(n)[g].full_path>>
             /\ printed[kc].dirs = <<ShownInode(RefsOf(n)[g].parent_inode)>>

\* ------------------------------------------------------------ C19
\* The ghosts of inode n that are neither the identified Creation nor the
\* identified Deletion.
IntermediateGhosts(n) ==
    {k \in 1..Len(RefsOf(n)) :
        /\ RefsOf(n)[k].is_ghost
        /\ ~(InfoOf(n).foundCreation /\ RefsOf(n)[k] = InfoOf(n).CreationEntry)
        /\ ~(InfoOf(n).foundDeletion /\ RefsOf(n)[k] = InfoOf(n).DeletionEntry)}

\* C19: in the printed history of a deleted inode with three or more ghosts
\* and no live reference, every ghost that is neither Creation nor Deletion
\* is the source or the destination of an mv line of that inode.
C19_IntermediateGhostsMove ==
    pc = "done" =>
      \A n \in Keys :
        (/\ CountGhost(RefsOf(n)) >= 3
         /\ CountLive(RefsOf(n)) = 0
         /\ DataOf(n).deletion_time # 0)
        => \A g \in IntermediateGhosts(n) :
             \E km \in LinesOf(n) :
               /\ printed[km].action = "mv"
               /\ \E a \in 1..Len(printed[km].args) :
                    printed[km].args[a] = RefsOf(n)[g].full_path

\* ------------------------------------------------------------ C20
\* An inode with two ghosts, one live reference, deletion_time = 0 and both
\* Creation and OtherGhost identified.
TwoGhostsLive(n) ==
    /\ CountGhost(RefsOf(n)) = 2
    /\ CountLive(RefsOf(n)) = 1
    /\ DataOf(n).deletion_time = 0
    /\ InfoOf(n).foundCreation
    /\ InfoOf(n).foundOtherGhost

\* The timestamp the claim gives the move OtherGhost -> Live (0: unknown).
LastHopStamp(n) ==
    LET pm == readInode(InfoOf(n).OtherGhost.parent_inode).modification_time
    IN IF \/ pm = readInode(InfoOf(n).LiveEntry.parent_inode).modification_time
          \/ pm = DataOf(n).change_time
       THEN pm
       ELSE IF DataOf(n).change_time # DataOf(n).modification_time
            THEN DataOf(n).change_time
            ELSE 0

\* Lines k1 and k2 are the only mv lines of n: Creation -> OtherGhost with
\* unknown time and OtherGhost -> Live with the stamp above.
TwoHops(n, k1, k2) ==
    LET c == InfoOf(n).CreationEntry
        o == InfoOf(n).OtherGhost
        l == InfoOf(n).LiveEntry
    IN /\ k1 # k2
       /\ {k \in LinesOf(n) : printed[k].action = "mv"} = {k1, k2}
       /\ printed[k1] = [ts |-> "?", action |-> "mv",
                         args |-> <<c.full_path, o.full_path>>,
                         dirs |-> <<ShownInode(c.parent_inode), ShownInode(o.parent_inode)>>,
                         inodes |-> <<NumStr(n)>>]
       /\ printed[k2] = [ts |-> ShownTime(LastHopStamp(n)), action |-> "mv",
                         args |-> <<o.full_path, l.full_path>>,
                         dirs |-> <<ShownInode(o.parent_inode), ShownInode(l.parent_inode)>>,
                         inodes |-> <<NumStr(n)>>]

\* C20 (as claimed): such an inode has exactly the two mv lines, and the
\* line Creation -> OtherGhost is printed before the line OtherGhost -> Live,
\* also when both timestamps are unknown.
C20_TwoHopsInOrder ==
    pc = "done" =>
      \A n \in Keys :
        TwoGhostsLive(n) =>
          \E k1, k2 \in LinesOf(n) : TwoHops(n, k1, k2) /\ k1 < k2

\* C20 (amended): such an inode has exactly the two mv lines; the line
\* Creation -> OtherGhost is printed before the line OtherGhost -> Live
\* whenever the latter's timestamp is known.
C20_TwoHopsInOrderIfStamped ==
    pc = "done" =>
      \A n \in Keys :
        TwoGhostsLive(n) =>
          \E k1, k2 \in LinesOf(n) :
            /\ TwoHops(n, k1, k2)
            /\ LastHopStamp(n) # 0 => k1 < k2

\* C20 witness: the printed history of such an inode whose second move is
\* stamped with the modification_time of OtherGhost's parent, which is not
\* what the inode's own times would give.
C20_Witness ==
    /\ pc = "done"
    /\ \E n \in Keys :
         /\ TwoGhostsLive(n)
         /\ LastHopStamp(n) # 0
         /\ LastHopStamp(n) # ChangeStamp(DataOf(n))

\* ------------------------------------------------------------ C12
ScavTop == pc = "scavenge" /\ stack # <<>> /\ Top.fn = "findGhostEntries"

\* C12: at every cursor position the loop of findGhostEntries examines, the
\* candidate there is recorded exactly when its inode is nonzero, its
\* name_length is at least 1, its length is nonzero, cursor + 8 + name_length
\* does not pass the end of the slack and its name is neither "." nor "..";
\* what is recorded is its inode, its name_length name bytes and its
\* file_type; the cursor moves on by 4 when one of the first four conditions
\* fails and by align4(8 + name_length) otherwise; the 8 + name_length bytes
\* of a recorded ghost lie inside [start_offset, start_offset +
\* available_space).
C12_ScavengerRule ==
    [][(/\ ScavTop
        /\ Top.offset + 8 <= Top.start_offset + Top.available_space)
       => LET buf == Top.block_buffer
              at == Top.offset
              end == Top.start_offset + Top.available_space
              ino == buf[at + 1] + 256 * buf[at + 2] + 65536 * buf[at + 3]
                       + 16777216 * buf[at + 4]
              len == buf[at + 5] + 256 * buf[at + 6]
              nl == buf[at + 7]
              name == [i \in 1..nl |-> buf[at + 8 + i]]
              shaped == ino # 0 /\ nl >= 1 /\ len # 0 /\ at + 8 + nl <= end
              recorded == shaped /\ name # <<46>> /\ name # <<46, 46>>
              after == stack'[Len(stack')]
          IN /\ Len(stack') = Len(stack)
             /\ after.ghosts =
                  IF recorded
                  THEN Append(Top.ghosts,
                              [inode |-> ino, name |-> name, file_type |-> buf[at + 8]])
                  ELSE Top.ghosts
             /\ after.offset =
                  IF shaped THEN at + 4 * ((8 + nl + 3) \div 4) ELSE at + 4
             /\ after.ghosts # Top.ghosts =>
                  /\ Top.start_offset <= at
                  /\ at + 8 + nl <= end]_vars

\* The bytes the cursor moved over for the ghosts it recorded.
RECURSIVE RecordedBytes(_)
RecordedBytes(ghosts) ==
    IF ghosts = <<>> THEN 0
    ELSE 4 * ((8 + Len(Head(ghosts).name) + 3) \div 4) + RecordedBytes(Tail(ghosts))

\* C12 witness: the scavenger has returned having recorded a ghost and
\* having slid past at least one candidate it did not record.
C12_Witness ==
    /\ pc = "scavenged"
    /\ Top.ghosts # <<>>
    /\ Top.offset - Top.start_offset > RecordedBytes(Top.ghosts)

\* ------------------------------------------------------------ C21
\* C21: every EntryRecord, live or ghost, that the scan of a block appends
\* to the index has parent_inode equal to the inode of the directory whose
\* traversal called the scan, for every pointer level the block was reached
\* through.
C21_ParentIsOwningDirectory ==
    [][(/\ ProcTop
        /\ Top.stage = "scan"
        /\ Len(stack) >= 2)
       => \A i \in InodeNums :
            \A k \in (Len(inode_to_info[i].entries) + 1)..Len(inode_to_info'[i].entries) :
              inode_to_info'[i].entries[k].parent_inode = stack[Len(stack) - 1].inode]_vars

\* ------------------------------------------------------------ C22
\* C22: on every image the walk started at inode 2 comes to an end:
\* displayDirectoryTree returns and recovery() is called.
C22_WalkReturns == <>(pc = "infer")

\* ------------------------------------------------------------ C24
\* C24: in every iteration of the inference loop, each subscript k with
\* which the reference list of the inode is read is below the length of the
\* list.
C24_ReadsOnlyExistingEntries ==
    [][(/\ pc = "infer"
        /\ NextKeys # {}
        /\ cur' # cur)
       => \A k \in IndexedReads(RefsOf(cur'), DataOf(cur')) :
            Len(RefsOf(cur')) > k]_vars

\* ------------------------------------------------------------ C25
\* The live on-disk records of the image that reference inode n ("." and
\* ".." apart): <<b, k>> is record k of block b.
OnDiskLive(n) ==
    UNION {{<<b, k>> : k \in {j \in 1..Len(img.blocks[b].recs) :
                                /\ img.blocks[b].recs[j].inode = n
                                /\ img.blocks[b].recs[j].name \notin {".", ".."}}} :
           b \in 1..Len(img.blocks)}

\* C25: when the walk has returned, no inode has more non-ghost
\* EntryRecords in the index than there are live on-disk records that
\* reference it: no on-disk record was registered twice.
C25_LiveRecordRegisteredOnce ==
    pc = "infer" =>
      \A n \in InodeNums :
        CountLive(RefsOf(n)) <= Cardinality(OnDiskLive(n))

\* ------------------------------------------------------------ C23
\* C23: in every turn of the scanner's loop the 8-byte header at offset, the
\* name bytes of a live record and the slack [offset + actual, offset +
\* length) lie inside the block_size bytes of the buffer, and so does every
\* header and every name the scavenger reads.
C23_ReadsInsideBlock ==
    [][/\ (/\ pc = "scan"
           /\ Top.offset < Len(Top.block_buffer))
          => /\ Top.offset + 8 <= Len(Top.block_buffer)
             /\ LET at == Top.offset
                    buf == Top.block_buffer
                    ino == buf[at + 1] + 256 * buf[at + 2] + 65536 * buf[at + 3]
                             + 16777216 * buf[at + 4]
                    len == buf[at + 5] + 256 * buf[at + 6]
                    nl == buf[at + 7]
                IN len # 0 =>
                     /\ ino # 0 => at + 8 + nl <= Len(buf)
                     /\ len > 4 * ((8 + nl + 3) \div 4) => at + len <= Len(buf)
       /\ (/\ pc = "scavenge"
           /\ Top.offset + 8 <= Top.start_offset + Top.available_space)
          => /\ Top.offset + 8 <= Len(Top.block_buffer)
             /\ Len(stack'[Len(stack')].ghosts) > Len(Top.ghosts) =>
                  Top.offset + 8 + Len(stack'[Len(stack')].ghosts[Len(Top.ghosts) + 1].name)
                    <= Len(Top.block_buffer)]_vars

====
